---------------------------- MODULE Spec2Model ----------------------------
(***************************************************************************)
(* OrderFlow: the categorization engine (categorize_item over             *)
(* KEYWORDS_DATABASE) and the DraftManager's read-modify-write of the     *)
(* single Firestore document drafts/current-draft, called by several      *)
(* users' sessions at once.                                                *)
(*                                                                         *)
(* Python strings are modelled as sequences of one-character strings so   *)
(* that strip(), lower(), list membership and substring search are        *)
(* computed, not assumed.                                                  *)
(***************************************************************************)
EXTENDS Integers, Sequences, FiniteSets, TLC

\* ------------------------------------------------------------------------
\* Bounds of the model
\* ------------------------------------------------------------------------

\* How many add_item calls (readings of datetime.now()) a behaviour contains.
MaxAdds == 2

\* The sessions calling the DraftManager concurrently.
Users == {"u1", "u2"}

\* ------------------------------------------------------------------------
\* Python string operations
\* ------------------------------------------------------------------------

Whitespace == {" ", "\t", "\n"}

UpperCase == <<"A", "B", "C", "D", "E", "F", "G", "H", "I", "J", "K", "L", "M",
               "N", "O", "P", "Q", "R", "S", "T", "U", "V", "W", "X", "Y", "Z">>

LowerCase == <<"a", "b", "c", "d", "e", "f", "g", "h", "i", "j", "k", "l", "m",
               "n", "o", "p", "q", "r", "s", "t", "u", "v", "w", "x", "y", "z">>

SetMin(S) == CHOOSE x \in S : \A y \in S : x <= y

SetMax(S) == CHOOSE x \in S : \A y \in S : y <= x

\* One character of str.lower().
lower_char(c) ==
  IF \E i \in 1..Len(UpperCase) : UpperCase[i] = c
    THEN LowerCase[CHOOSE i \in 1..Len(UpperCase) : UpperCase[i] = c]
    ELSE c

\* str.lower()
lower(s) == [i \in 1..Len(s) |-> lower_char(s[i])]

\* str.strip(): leading and trailing whitespace removed, inner kept.
strip(s) ==
  LET kept == {i \in 1..Len(s) : s[i] \notin Whitespace}
  IN  IF kept = {} THEN <<>> ELSE SubSeq(s, SetMin(kept), SetMax(kept))

\* Python's `k in s` for strings: k occurs as a contiguous substring of s.
is_substring(k, s) ==
  \E start \in 1..(Len(s) - Len(k) + 1) : SubSeq(s, start, start + Len(k) - 1) = k

\* Python's truth value of a string: `not s` holds exactly for "".
truthy(s) == s # <<>>

\* ------------------------------------------------------------------------
\* Categorization engine
\* ------------------------------------------------------------------------

\* The dict literal, in insertion order (the order dict.items() iterates in).
KEYWORDS_DATABASE ==
  <<
    [category |-> "Dairy & Milk Products",
     keywords |-> << <<"m", "i", "l", "k">>,
                    <<"b", "u", "t", "t", "e", "r">>,
                    <<"c", "h", "e", "e", "s", "e">>,
                    <<"p", "a", "n", "e", "e", "r">>,
                    <<"c", "u", "r", "d">>,
                    <<"g", "h", "e", "e">>,
                    <<"c", "r", "e", "a", "m">> >>],
    [category |-> "Meat, Poultry & Seafood",
     keywords |-> << <<"c", "h", "i", "c", "k", "e", "n">>,
                    <<"m", "u", "t", "t", "o", "n">>,
                    <<"f", "i", "s", "h">>,
                    <<"e", "g", "g", "s">>,
                    <<"p", "r", "a", "w", "n", "s">>,
                    <<"m", "e", "a", "t">> >>],
    [category |-> "Vegetables",
     keywords |-> << <<"o", "n", "i", "o", "n">>,
                    <<"t", "o", "m", "a", "t", "o">>,
                    <<"p", "o", "t", "a", "t", "o">>,
                    <<"c", "a", "r", "r", "o", "t">>,
                    <<"b", "e", "a", "n", "s">>,
                    <<"c", "a", "b", "b", "a", "g", "e">>,
                    <<"s", "p", "i", "n", "a", "c", "h">> >>],
    [category |-> "Fruits",
     keywords |-> << <<"a", "p", "p", "l", "e">>,
                    <<"b", "a", "n", "a", "n", "a">>,
                    <<"m", "a", "n", "g", "o">>,
                    <<"o", "r", "a", "n", "g", "e">>,
                    <<"g", "r", "a", "p", "e", "s">> >>],
    [category |-> "Rice, Grains & Pulses",
     keywords |-> << <<"r", "i", "c", "e">>,
                    <<"w", "h", "e", "a", "t">>,
                    <<"a", "t", "t", "a">>,
                    <<"d", "a", "l">>,
                    <<"p", "a", "s", "t", "a">>,
                    <<"n", "o", "o", "d", "l", "e", "s">> >>],
    [category |-> "Spices & Masala",
     keywords |-> << <<"s", "a", "l", "t">>,
                    <<"p", "e", "p", "p", "e", "r">>,
                    <<"t", "u", "r", "m", "e", "r", "i", "c">>,
                    <<"c", "h", "i", "l", "l", "i">>,
                    <<"m", "a", "s", "a", "l", "a">>,
                    <<"j", "e", "e", "r", "a">> >>],
    [category |-> "Cooking Oil & Ghee",
     keywords |-> << <<"o", "i", "l">>,
                    <<"g", "h", "e", "e">>,
                    <<"b", "u", "t", "t", "e", "r">>,
                    <<"r", "e", "f", "i", "n", "e", "d">> >>],
    [category |-> "Bakery & Bread",
     keywords |-> << <<"b", "r", "e", "a", "d">>,
                    <<"b", "u", "n">>,
                    <<"c", "a", "k", "e">>,
                    <<"b", "i", "s", "c", "u", "i", "t">>,
                    <<"p", "a", "v">> >>],
    [category |-> "Beverages & Drinks",
     keywords |-> << <<"t", "e", "a">>,
                    <<"c", "o", "f", "f", "e", "e">>,
                    <<"j", "u", "i", "c", "e">>,
                    <<"w", "a", "t", "e", "r">>,
                    <<"c", "o", "l", "d", " ", "d", "r", "i", "n", "k">> >>],
    [category |-> "Cleaning & Kitchen Supplies",
     keywords |-> << <<"t", "i", "s", "s", "u", "e">>,
                    <<"n", "a", "p", "k", "i", "n">>,
                    <<"d", "e", "t", "e", "r", "g", "e", "n", "t">>,
                    <<"s", "o", "a", "p">>,
                    <<"f", "o", "i", "l">> >>]
  >>

Uncategorized == "Uncategorized"

keyword_set(c) == {KEYWORDS_DATABASE[c].keywords[i] :
                     i \in 1..Len(KEYWORDS_DATABASE[c].keywords)}

\* The first loop of categorize_item: `item_lower in keywords`, per category
\* in table order; the categories (indices) whose list holds item_lower.
exact_matches(item_lower) ==
  {c \in 1..Len(KEYWORDS_DATABASE) : item_lower \in keyword_set(c)}

\* The second loop: `keyword in item_lower` for some keyword of the category.
partial_matches(item_lower) ==
  {c \in 1..Len(KEYWORDS_DATABASE) :
     \E k \in keyword_set(c) : is_substring(k, item_lower)}

\* A categorizer whose exact-match loop is missing.
categorize_item_partial_only(item_name) ==
  IF ~truthy(item_name) THEN Uncategorized
  ELSE LET item_lower == strip(lower(item_name))
       IN  IF partial_matches(item_lower) # {}
             THEN KEYWORDS_DATABASE[SetMin(partial_matches(item_lower))].category
             ELSE Uncategorized

categorize_item(item_name) ==
  IF ~truthy(item_name) THEN Uncategorized
  ELSE LET item_lower == strip(lower(item_name))
       IN  IF exact_matches(item_lower) # {}
             THEN KEYWORDS_DATABASE[SetMin(exact_matches(item_lower))].category
           ELSE IF partial_matches(item_lower) # {}
             THEN KEYWORDS_DATABASE[SetMin(partial_matches(item_lower))].category
           ELSE Uncategorized

\* ------------------------------------------------------------------------
\* Inputs
\* ------------------------------------------------------------------------

Milk == <<"M", "i", "l", "k">>

PaddedGhee == <<" ", "G", "h", "e", "e", " ">>

Blank == <<" ", " ">>

OneLitre == <<"1", "L">>

PaddedTwoKg == <<" ", "2", "k", "g", " ">>

Asha == <<"A", "s", "h", "a">>

PaddedRavi == <<" ", "R", "a", "v", "i", " ">>

\* What a caller passes as (item_name, quantity, added_by): well-formed
\* input, padded input, and input that is empty or blank.
Submissions ==
  { <<Milk, OneLitre, Asha>>,
    <<PaddedGhee, PaddedTwoKg, PaddedRavi>>,
    <<Blank, <<>>, Asha>>,
    <<Milk, OneLitre, <<>>>> }

\* The indices a caller passes to remove_item.
Indices == (-1)..MaxAdds

\* ------------------------------------------------------------------------
\* State
\* ------------------------------------------------------------------------

VARIABLES
  store,     \* the Firestore document drafts/current-draft
  now,       \* datetime.now(), as the number of readings taken so far
  pc,        \* where each user's session is
  frame,     \* the arguments and locals of each user's running call
  returned,  \* what the step just taken returned, and to whom, if it ended a call
  acked,     \* history: the items (by added_at) whose add_item returned normally
  popped,    \* history: the items (by added_at) remove_item returned
  cleared,   \* history: the items (by added_at) persisted when a clear_draft ran
  cat_in,    \* categorizer harness: the item name given
  cat_out    \* categorizer harness: the category returned

vars == <<store, now, pc, frame, returned, acked, popped, cleared, cat_in, cat_out>>

\* No document under the key yet.
NoDocument == [exists |-> FALSE, items |-> <<>>, status |-> ""]

\* The dict get_draft returns when there is no document.
EmptyDraft == [items |-> <<>>, status |-> "Draft"]

\* A session that is in no call.
NoFrame ==
  [item_name |-> <<>>, quantity |-> <<>>, added_by |-> <<>>, item |-> <<>>,
   doc_exists |-> FALSE, current_items |-> <<>>, index |-> 0]

\* None is the empty sequence in `removed` and `draft`; a returned dict is the
\* sequence holding it.
NoReturn ==
  [user |-> "", op |-> "", index |-> 0, category |-> "", removed |-> <<>>,
   draft |-> <<>>, error |-> ""]

NotRun == "(not run)"

Range(s) == {s[i] : i \in 1..Len(s)}

\* The clock readings that identify the items of a list.
added_ats(items) == {items[i].added_at : i \in 1..Len(items)}

\* ------------------------------------------------------------------------
\* Firestore document reference
\* ------------------------------------------------------------------------

\* DocumentReference.set(data): creates or wholly replaces the document.
firestore_set(data) ==
  [exists |-> TRUE, items |-> data.items, status |-> data.status]

\* DocumentReference.update({'items': items}): replaces that field of an
\* existing document; on a missing document it raises NotFound and writes
\* nothing.
firestore_update(doc, items) ==
  IF doc.exists
    THEN [raised |-> FALSE, doc |-> [doc EXCEPT !.items = items]]
    ELSE [raised |-> TRUE, doc |-> doc]

\* DocumentSnapshot.to_dict() of an existing document.
to_dict(doc) == [items |-> doc.items, status |-> doc.status]

\* ------------------------------------------------------------------------
\* DraftManager
\* ------------------------------------------------------------------------

\* An item dict that keeps the quantity as typed.
new_item_unstripped(item_name, quantity, added_by, at) ==
  [name |-> strip(item_name), quantity |-> quantity,
   category |-> categorize_item(item_name), added_by |-> added_by,
   added_at |-> at]

\* The item dict add_item builds.
new_item(item_name, quantity, added_by, at) ==
  [name |-> strip(item_name), quantity |-> strip(quantity),
   category |-> categorize_item(item_name), added_by |-> added_by,
   added_at |-> at]

\* list.pop(index): the list without the element at the zero-based index; a
\* negative index counts from the end.
py_index(items, index) == IF index < 0 THEN index + Len(items) + 1 ELSE index + 1

\* A pop that ignores the index: list.pop() takes the last element.
pop_last(items, index) ==
  [removed |-> items[Len(items)], rest |-> SubSeq(items, 1, Len(items) - 1)]

pop(items, index) ==
  LET at == py_index(items, index)
  IN  [removed |-> items[at],
       rest |-> SubSeq(items, 1, at - 1) \o SubSeq(items, at + 1, Len(items))]

\* A bounds check that forgets the lower bound.
in_range_no_lower(index, items) == index < Len(items) /\ Len(items) > 0

\* remove_item's bounds check.
in_range(index, items) == 0 <= index /\ index < Len(items)

\* get_draft's result for a document.
get_draft_result(doc) == IF ~doc.exists THEN EmptyDraft ELSE to_dict(doc)

\* A call of user u ends, returning r.
Return(u, r) ==
  /\ pc' = [pc EXCEPT ![u] = "idle"]
  /\ frame' = [frame EXCEPT ![u] = NoFrame]
  /\ returned' = [r EXCEPT !.user = u]

\* --- add_item -------------------------------------------------------------

\* add_item up to `draft_doc = self.draft_ref.get()`: the item is built with
\* the clock's reading, then the document is read.  Two readings of the
\* clock differ (isoformat() has microseconds).
add_item_get(u, item_name, quantity, added_by) ==
  /\ now < MaxAdds
  /\ now' = now + 1
  /\ pc' = [pc EXCEPT ![u] = "add_item_write"]
  /\ frame' = [frame EXCEPT ![u] =
       [item_name |-> item_name, quantity |-> quantity, added_by |-> added_by,
        item |-> <<new_item(item_name, quantity, added_by, now)>>,
        doc_exists |-> store.exists,
        current_items |-> IF store.exists THEN to_dict(store).items ELSE <<>>,
        index |-> 0]]
  /\ returned' = NoReturn
  /\ UNCHANGED <<store, acked, popped, cleared>>

\* A call of DraftManager.add_item from outside the form.
add_item(u, item_name, quantity, added_by) ==
  /\ pc[u] = "idle"
  /\ add_item_get(u, item_name, quantity, added_by)

\* An add_item whose write is a transaction: it appends to the document as
\* it is at the write.
add_item_write_transactional(u) ==
  /\ pc[u] = "add_item_write"
  /\ store' = firestore_set([items |-> Append(store.items, frame[u].item[1]),
                             status |-> "Draft"])
  /\ acked' = acked \cup {frame[u].item[1].added_at}
  /\ Return(u, [NoReturn EXCEPT !.op = "add_item",
                                !.category = frame[u].item[1].category])
  /\ UNCHANGED <<now, popped, cleared>>

\* add_item from `if draft_doc.exists:` to its return: update() of the items
\* read, with the item appended, or set() of a new document.
add_item_write(u) ==
  /\ pc[u] = "add_item_write"
  /\ LET item == frame[u].item[1]
         updated == firestore_update(store, Append(frame[u].current_items, item))
     IN  IF frame[u].doc_exists /\ updated.raised
           THEN /\ Return(u, [NoReturn EXCEPT !.op = "add_item", !.error = "NotFound"])
                /\ UNCHANGED <<store, acked>>
           ELSE /\ store' = IF frame[u].doc_exists
                              THEN updated.doc
                              ELSE firestore_set([items |-> <<item>>, status |-> "Draft"])
                /\ acked' = acked \cup {item.added_at}
                /\ Return(u, [NoReturn EXCEPT !.op = "add_item",
                                              !.category = item.category])
  /\ UNCHANGED <<now, popped, cleared>>

\* --- add_item_form (the only caller of add_item in the app) -------------

\* The user presses "Add Item" with the three text inputs filled in:
\* `if submitted:`, its two checks, then draft_manager.add_item up to its
\* read of the document.
add_item_form(u, item_name, quantity, added_by) ==
  /\ pc[u] = "idle"
  /\ IF ~truthy(item_name) \/ ~truthy(strip(item_name))
       THEN /\ Return(u, [NoReturn EXCEPT !.op = "add_item_form",
                                          !.error = "Item name is required"])
            /\ UNCHANGED <<store, now, acked, popped, cleared>>
     ELSE IF ~truthy(added_by) \/ ~truthy(strip(added_by))
       THEN /\ Return(u, [NoReturn EXCEPT !.op = "add_item_form",
                                          !.error = "Your name is required"])
            /\ UNCHANGED <<store, now, acked, popped, cleared>>
     ELSE add_item_get(u, item_name, quantity, added_by)

\* --- get_draft ------------------------------------------------------------

\* A get_draft that persists its default when the document is missing.
get_draft_creating(u) ==
  /\ pc[u] = "idle"
  /\ store' = IF store.exists THEN store ELSE firestore_set(EmptyDraft)
  /\ Return(u, [NoReturn EXCEPT !.op = "get_draft",
                                !.draft = <<get_draft_result(store)>>])
  /\ UNCHANGED <<now, acked, popped, cleared>>

get_draft(u) ==
  /\ pc[u] = "idle"
  /\ Return(u, [NoReturn EXCEPT !.op = "get_draft",
                                !.draft = <<get_draft_result(store)>>])
  /\ UNCHANGED <<store, now, acked, popped, cleared>>

\* --- remove_item ----------------------------------------------------------

\* remove_item up to its bounds check: the draft is read; an index out of
\* range returns None at once.
remove_item(u, index) ==
  /\ pc[u] = "idle"
  /\ LET items == get_draft_result(store).items
     IN  IF in_range(index, items)
           THEN /\ pc' = [pc EXCEPT ![u] = "remove_item_write"]
                /\ frame' = [frame EXCEPT ![u] =
                     [NoFrame EXCEPT !.doc_exists = store.exists,
                                     !.current_items = items,
                                     !.index = index]]
                /\ returned' = NoReturn
           ELSE Return(u, [NoReturn EXCEPT !.op = "remove_item", !.index = index])
  /\ UNCHANGED <<store, now, acked, popped, cleared>>

\* remove_item's pop, update() and return.
remove_item_write(u) ==
  /\ pc[u] = "remove_item_write"
  /\ LET popping == pop(frame[u].current_items, frame[u].index)
         updated == firestore_update(store, popping.rest)
     IN  IF updated.raised
           THEN /\ Return(u, [NoReturn EXCEPT !.op = "remove_item",
                                              !.index = frame[u].index,
                                              !.error = "NotFound"])
                /\ UNCHANGED <<store, popped>>
           ELSE /\ store' = updated.doc
                /\ popped' = popped \cup {popping.removed.added_at}
                /\ Return(u, [NoReturn EXCEPT !.op = "remove_item",
                                              !.index = frame[u].index,
                                              !.removed = <<popping.removed>>])
  /\ UNCHANGED <<now, acked, cleared>>

\* --- clear_draft ----------------------------------------------------------

\* A clear that deletes the document instead of replacing it.
clear_draft_deleting(u) ==
  /\ pc[u] = "idle"
  /\ store' = NoDocument
  /\ cleared' = cleared \cup added_ats(store.items)
  /\ Return(u, [NoReturn EXCEPT !.op = "clear_draft"])
  /\ UNCHANGED <<now, acked, popped>>

\* A clear that only empties the items field of the document it finds.
clear_draft_updating(u) ==
  /\ pc[u] = "idle"
  /\ LET updated == firestore_update(store, <<>>)
     IN  /\ store' = updated.doc
         /\ Return(u, [NoReturn EXCEPT !.op = "clear_draft",
                         !.error = IF updated.raised THEN "NotFound" ELSE ""])
  /\ cleared' = cleared \cup added_ats(store.items)
  /\ UNCHANGED <<now, acked, popped>>

clear_draft(u) ==
  /\ pc[u] = "idle"
  /\ store' = firestore_set([items |-> <<>>, status |-> "Draft"])
  /\ cleared' = cleared \cup added_ats(store.items)
  /\ Return(u, [NoReturn EXCEPT !.op = "clear_draft"])
  /\ UNCHANGED <<now, acked, popped>>

\* ------------------------------------------------------------------------
\* Specification of the draft
\* ------------------------------------------------------------------------

DraftInit ==
  /\ store = NoDocument
  /\ now = 0
  /\ pc = [u \in Users |-> "idle"]
  /\ frame = [u \in Users |-> NoFrame]
  /\ returned = NoReturn
  /\ acked = {}
  /\ popped = {}
  /\ cleared = {}

Init == DraftInit /\ cat_in = <<>> /\ cat_out = NotRun

\* The DraftManager's methods, called by any user at any time.
Next ==
  \/ \E u \in Users : \E s \in Submissions :
       /\ add_item(u, s[1], s[2], s[3])
       /\ UNCHANGED <<cat_in, cat_out>>
  \/ \E u \in Users : add_item_write(u) /\ UNCHANGED <<cat_in, cat_out>>
  \/ \E u \in Users : get_draft(u) /\ UNCHANGED <<cat_in, cat_out>>
  \/ \E u \in Users : \E i \in Indices :
       /\ remove_item(u, i)
       /\ UNCHANGED <<cat_in, cat_out>>
  \/ \E u \in Users : remove_item_write(u) /\ UNCHANGED <<cat_in, cat_out>>
  \/ \E u \in Users : clear_draft(u) /\ UNCHANGED <<cat_in, cat_out>>

Spec == Init /\ [][Next]_vars

\* The app: items are added through add_item_form only.
NextApp ==
  \/ \E u \in Users : \E s \in Submissions :
       /\ add_item_form(u, s[1], s[2], s[3])
       /\ UNCHANGED <<cat_in, cat_out>>
  \/ \E u \in Users : add_item_write(u) /\ UNCHANGED <<cat_in, cat_out>>
  \/ \E u \in Users : get_draft(u) /\ UNCHANGED <<cat_in, cat_out>>
  \/ \E u \in Users : \E i \in Indices :
       /\ remove_item(u, i)
       /\ UNCHANGED <<cat_in, cat_out>>
  \/ \E u \in Users : remove_item_write(u) /\ UNCHANGED <<cat_in, cat_out>>
  \/ \E u \in Users : clear_draft(u) /\ UNCHANGED <<cat_in, cat_out>>

SpecApp == Init /\ [][NextApp]_vars

\* ------------------------------------------------------------------------
\* Specification of the categorizer alone
\* ------------------------------------------------------------------------

\* Every keyword of the table, in every category's list.
AllKeywords == UNION {keyword_set(c) : c \in 1..Len(KEYWORDS_DATABASE)}

upper_char(c) ==
  IF \E i \in 1..Len(LowerCase) : LowerCase[i] = c
    THEN UpperCase[CHOOSE i \in 1..Len(LowerCase) : LowerCase[i] = c]
    ELSE c

\* A keyword as a user types it: capitalised, with blanks around it.
AsTyped(k) == <<" ", upper_char(k[1])>> \o Tail(k) \o <<" ">>

Buttermilk == <<"b", "u", "t", "t", "e", "r", "m", "i", "l", "k">>

Unmatched == <<"x", "y", "z">>

\* The item names categorize_item is run on.
CatInputs ==
  AllKeywords \cup {AsTyped(k) : k \in AllKeywords}
              \cup {<<>>, Blank, Unmatched, Buttermilk}

InitCat == DraftInit /\ cat_in \in CatInputs /\ cat_out = NotRun

Categorize ==
  /\ cat_out = NotRun
  /\ cat_out' = categorize_item(cat_in)
  /\ UNCHANGED <<store, now, pc, frame, returned, acked, popped, cleared, cat_in>>

NextCat == Categorize

SpecCat == InitCat /\ [][NextCat]_vars

\* ------------------------------------------------------------------------
\* Vocabulary of the properties
\* ------------------------------------------------------------------------

\* User u's pending write is about to end its call.
Writes(u, at) == pc[u] = at /\ pc'[u] = "idle"

\* The document is not what user u read: a write happened in between.
Stale(u) ==
  \/ store.exists # frame[u].doc_exists
  \/ store.items # frame[u].current_items

\* t is s without its leading and trailing whitespace.
IsTrimOf(t, s) ==
  /\ t # <<>> => t[1] \notin Whitespace /\ t[Len(t)] \notin Whitespace
  /\ \E a \in 0..Len(s) :
       /\ a + Len(t) <= Len(s)
       /\ SubSeq(s, a + 1, a + Len(t)) = t
       /\ \A i \in 1..Len(s) : (i <= a \/ i > a + Len(t)) => s[i] \in Whitespace

\* s is non-empty and equal to its own trimmed form.
IsNonEmptyTrimmed(s) ==
  s # <<>> /\ s[1] \notin Whitespace /\ s[Len(s)] \notin Whitespace

\* The list `items` without its element at zero-based position i.
Without(items, i) ==
  [j \in 1..(Len(items) - 1) |-> IF j <= i THEN items[j] ELSE items[j + 1]]

\* The persisted items, empty when there is no document.
Persisted == IF store.exists THEN store.items ELSE <<>>

\* The categories (table positions) that list k as a keyword.
ListedUnder(k) ==
  {c \in 1..Len(KEYWORDS_DATABASE) :
     \E i \in 1..Len(KEYWORDS_DATABASE[c].keywords) :
       KEYWORDS_DATABASE[c].keywords[i] = k}

\* ------------------------------------------------------------------------
\* Properties
\* ------------------------------------------------------------------------

\* C1: a write-back made after another user's write (the document is no
\* longer what the writer read) is carried out without any check: the call
\* returns normally and the persisted items are the writer's own stale
\* reading with only its own change applied, so the change written in between
\* is gone (last writer wins).
C1_LastWriterWins ==
  [][\A u \in Users :
       /\ (Writes(u, "add_item_write") /\ Stale(u)) =>
            /\ returned'.op = "add_item" /\ returned'.error = ""
            /\ store'.items = Append(frame[u].current_items, frame[u].item[1])
       /\ (Writes(u, "remove_item_write") /\ Stale(u)) =>
            /\ returned'.op = "remove_item" /\ returned'.error = ""
            /\ store'.items = Without(frame[u].current_items, frame[u].index)]_vars

\* C1 witness: both add_item calls have returned normally, nothing was
\* removed or cleared, and one of the two items is not persisted.
C1_LostUpdate ==
  /\ \A u \in Users : pc[u] = "idle"
  /\ returned.op = "add_item" /\ returned.error = ""
  /\ acked = {0, 1} /\ popped = {} /\ cleared = {}
  /\ Len(store.items) = 1

\* C2: an add_item whose write meets the document as it read it appends
\* exactly one item at the end and leaves the earlier items as they were; the
\* item has the trimmed name, the trimmed quantity, categorize_item(name) and
\* added_by as supplied; the call returns that category and get_draft then
\* returns the new sequence.
C2_AddAppends ==
  [][\A u \in Users :
       (Writes(u, "add_item_write") /\ ~Stale(u)) =>
         LET before == Persisted
             after == store'.items
             item == after[Len(after)]
         IN  /\ store'.exists
             /\ Len(after) = Len(before) + 1
             /\ SubSeq(after, 1, Len(before)) = before
             /\ IsTrimOf(item.name, frame[u].item_name)
             /\ IsTrimOf(item.quantity, frame[u].quantity)
             /\ item.category = categorize_item(frame[u].item_name)
             /\ item.added_by = frame[u].added_by
             /\ returned'.op = "add_item"
             /\ returned'.category = item.category
             /\ get_draft_result(store').items = after]_vars

\* C2 witness: the padded submission was appended to a draft of one item.
C2_PaddedItemAppended ==
  /\ returned.op = "add_item" /\ returned.category = "Dairy & Milk Products"
  /\ acked = {0, 1} /\ popped = {} /\ cleared = {}
  /\ Len(store.items) = 2
  /\ store.items[1].added_at = 0
  /\ store.items[2].name = <<"G", "h", "e", "e">>
  /\ store.items[2].quantity = <<"2", "k", "g">>
  /\ store.items[2].added_by = PaddedRavi

\* C3: a remove_item(i) with 0 <= i < len(items) whose write meets the
\* document as it read it removes exactly the element at position i, returns
\* it, and leaves the other items in their order.
C3_RemoveAtIndex ==
  [][\A u \in Users :
       (Writes(u, "remove_item_write") /\ ~Stale(u)) =>
         LET before == store.items
             i == frame[u].index
         IN  /\ 0 <= i /\ i < Len(before)
             /\ returned'.op = "remove_item"
             /\ returned'.removed = <<before[i + 1]>>
             /\ store'.items = Without(before, i)
             /\ store'.exists /\ store'.status = store.status]_vars

\* C3 witness: after add_item(A), add_item(B), remove_item(0) the draft
\* holds B alone and A was returned.
C3_FirstOfTwoRemoved ==
  /\ returned.op = "remove_item" /\ returned.index = 0
  /\ returned.removed # <<>> /\ returned.removed[1].added_at = 0
  /\ acked = {0, 1} /\ popped = {0} /\ cleared = {}
  /\ Len(store.items) = 1 /\ store.items[1].added_at = 1

\* C4: a remove_item(i) with i < 0 or i >= len(items), whatever the document
\* (none included), returns None, writes nothing and leaves the document as
\* it was.
C4_OutOfRangeNoOp ==
  [][\A u \in Users :
       LET begins == pc[u] = "idle" /\ pc'[u] = "remove_item_write"
           ends == pc[u] = "idle" /\ returned'.op = "remove_item"
                                  /\ returned'.user = u
           i == IF begins THEN frame'[u].index ELSE returned'.index
       IN  ((begins \/ ends) /\ (i < 0 \/ i >= Len(Persisted))) =>
             /\ pc'[u] = "idle"
             /\ returned'.removed = <<>> /\ returned'.error = ""
             /\ store' = store]_vars

\* C4 witness: remove_item(-1) on a draft that has items returned None.
C4_NegativeIndexRefused ==
  /\ returned.op = "remove_item" /\ returned.index = -1
  /\ returned.removed = <<>>
  /\ store.exists /\ Len(store.items) > 0

\* C5: get_draft leaves the store as it was; with no document it returns
\* empty items and status "Draft", and there is still no document.
C5_GetDraftReadOnly ==
  [][returned'.op = "get_draft" =>
       /\ store' = store
       /\ returned'.draft =
            <<IF store.exists
                THEN [items |-> store.items, status |-> store.status]
                ELSE [items |-> <<>>, status |-> "Draft"]>>]_vars

\* C5 witness: get_draft returned the default and there is no document.
C5_DefaultNotPersisted ==
  /\ returned.op = "get_draft"
  /\ returned.draft = <<[items |-> <<>>, status |-> "Draft"]>>
  /\ ~store.exists

\* C6: clear_draft can always run, returns normally, and leaves the document
\* {items: [], status: "Draft"}; run on that document it leaves it the same.
C6_ClearResets ==
  /\ [](\A u \in Users : pc[u] = "idle" => ENABLED clear_draft(u))
  /\ [][returned'.op = "clear_draft" =>
          /\ returned'.error = ""
          /\ store' = [exists |-> TRUE, items |-> <<>>, status |-> "Draft"]
          /\ (store = [exists |-> TRUE, items |-> <<>>, status |-> "Draft"]
                => store' = store)]_vars

\* C6 witness: a clear_draft has emptied a draft that held items.
C6_NonEmptyCleared ==
  /\ returned.op = "clear_draft"
  /\ cleared # {}
  /\ store = [exists |-> TRUE, items |-> <<>>, status |-> "Draft"]

\* C7 as claimed: categorize_item(k) is c for every category c listing k.
C7_EveryListingCategory ==
  cat_out # NotRun =>
    \A c \in ListedUnder(cat_in) : cat_out = KEYWORDS_DATABASE[c].category

\* C7: categorize_item(k) is the first category, in table order, that lists
\* k: the category k is listed under, except that "butter" and "ghee" under
\* "Cooking Oil & Ghee" resolve to "Dairy & Milk Products".
C7_FirstListingCategory ==
  (cat_out # NotRun /\ ListedUnder(cat_in) # {}) =>
    /\ \A c \in ListedUnder(cat_in) :
         (\A d \in ListedUnder(cat_in) : c <= d) =>
           cat_out = KEYWORDS_DATABASE[c].category
    /\ cat_in \in {<<"b", "u", "t", "t", "e", "r">>, <<"g", "h", "e", "e">>} =>
         cat_out = "Dairy & Milk Products"

\* C7 witness: "butter", listed under two categories, was categorized.
C7_ButterIsDairy ==
  /\ cat_in = <<"b", "u", "t", "t", "e", "r">>
  /\ Cardinality(ListedUnder(cat_in)) = 2
  /\ cat_out = "Dairy & Milk Products"

\* C8 as claimed: every persisted item added through the form has a name and
\* an added_by that are non-empty and equal to their trimmed forms, and a
\* rejected submission leaves the persisted draft unchanged.
C8_FormItemsTrimmed ==
  [][/\ \A i \in 1..Len(store'.items) :
          /\ IsNonEmptyTrimmed(store'.items[i].name)
          /\ IsNonEmptyTrimmed(store'.items[i].added_by)
     /\ returned'.op = "add_item_form" => store' = store]_vars

\* C9 as claimed: an item that was persisted when a clear_draft executed is
\* never persisted again.
C9_ClearIrreversible ==
  \A i \in 1..Len(store.items) : store.items[i].added_at \notin cleared

\* C10: the document never goes from existing to missing, every update() of
\* add_item and remove_item meets an existing document (none raises
\* NotFound), and an existing document has status "Draft".
C10_UpdateFindsDocument ==
  [][/\ store.exists => store'.exists
     /\ store'.exists => store'.status = "Draft"
     /\ returned'.error # "NotFound"
     /\ \A u \in Users :
          (Writes(u, "remove_item_write")
             \/ (Writes(u, "add_item_write") /\ frame[u].doc_exists))
            => store.exists]_vars

\* C10 witness: a remove_item's update() was carried out after a clear_draft
\* had replaced the document.
C10_UpdateAfterClear ==
  /\ returned.op = "remove_item" /\ returned.removed # <<>>
  /\ cleared # {}
  /\ store.exists /\ store.status = "Draft"
=============================================================================
